---- MODULE Spec2Model ----
(***************************************************************************)
(* Model of the retrieval-augmented chat server (rag_server.py): the      *)
(* identifier normaliser, the per-trial context cache and its build, the  *)
(* remote/local document reader with its temporary file, and the /chat    *)
(* handler.  Strings the code computes on are sequences of one-character  *)
(* strings.                                                               *)
(***************************************************************************)
EXTENDS Integers, Sequences, FiniteSets, TLC

(***************************** bounds **************************************)
\* longest raw identifier string fed to the normaliser
MaxRawLen == 9
\* number of single-character edits applied to one raw identifier
MaxEdits == 1
\* number of leaked temporary files the file system model keeps track of
MaxTmp == 1
MaxRisLines == 5
MaxCellParts == 5
MaxSmallLen == 4
MaxWindow == 3
MaxTextLen == 1180
MaxChunks == 4

(************************* program constants *******************************)
NCT_WIDTH    == 8
TOP_K == 8
CHUNK_TOKENS == 700
OVERLAP      == 120
MAX_SOURCES  == 5

(*************************** characters ************************************)
Digits     == {"0", "1", "2", "3", "4", "5", "6", "7", "8", "9"}
Whitespace == {" ", "\t", "\n", "\r"}
LowerAlpha == <<"a","b","c","d","e","f","g","h","i","j","k","l","m",
                "n","o","p","q","r","s","t","u","v","w","x","y","z">>
UpperAlpha == <<"A","B","C","D","E","F","G","H","I","J","K","L","M",
                "N","O","P","Q","R","S","T","U","V","W","X","Y","Z">>

Min(a, b) == IF a <= b THEN a ELSE b
Max(a, b) == IF a >= b THEN a ELSE b

\* a string of n copies of the character c
Rep(c, n) == [i \in 1..n |-> c]

\* str.upper() / str.lower(), one character
UpperChar(c) ==
  IF \E i \in 1..26 : LowerAlpha[i] = c
  THEN UpperAlpha[CHOOSE i \in 1..26 : LowerAlpha[i] = c]
  ELSE c

LowerChar(c) ==
  IF \E i \in 1..26 : UpperAlpha[i] = c
  THEN LowerAlpha[CHOOSE i \in 1..26 : UpperAlpha[i] = c]
  ELSE c

upper(s) == [i \in 1..Len(s) |-> UpperChar(s[i])]
lower(s) == [i \in 1..Len(s) |-> LowerChar(s[i])]

\* str.strip(): drop leading and trailing whitespace
strip(s) ==
  IF \A i \in 1..Len(s) : s[i] \in Whitespace THEN <<>>
  ELSE SubSeq(s,
         CHOOSE a \in 1..Len(s) :
           s[a] \notin Whitespace /\ \A j \in 1..(a-1) : s[j] \in Whitespace,
         CHOOSE b \in 1..Len(s) :
           s[b] \notin Whitespace /\ \A j \in (b+1)..Len(s) : s[j] \in Whitespace)

\* str.replace(pat, ""): remove the non-overlapping occurrences, left to right
RECURSIVE remove(_, _)
remove(s, pat) ==
  IF Len(s) < Len(pat) THEN s
  ELSE IF SubSeq(s, 1, Len(pat)) = pat
       THEN remove(SubSeq(s, Len(pat) + 1, Len(s)), pat)
       ELSE <<s[1]>> \o remove(Tail(s), pat)

\* the digit filter left out
digits_only_kept(s) == s

\* re.sub(r"\D", "", s)
IsDigit(c) == c \in Digits
digits_only(s) == SelectSeq(s, IsDigit)

\* str.zfill(width) on a string of digits (no sign to keep in front)
zfill(s, width) ==
  IF Len(s) >= width THEN s ELSE Rep("0", width - Len(s)) \o s

NCT_PREFIX == <<"N", "C", "T">>

normalize_nct(x) ==
  LET s == digits_only(remove(upper(strip(x)), NCT_PREFIX))
  IN  NCT_PREFIX \o zfill(s, NCT_WIDTH)


(***************************** chunker *************************************)
\* the elements of s at the indices in K, in index order
SelectIdx(s, K) ==
  IF K = 1..Len(s) THEN s
  ELSE [n \in 1..Cardinality(K) |->
          s[CHOOSE i \in K : Cardinality({j \in K : j <= i}) = n]]

\* re.sub(r"\s+\n", "\n", s): in a whitespace run, everything before the
\* run's last newline is dropped (the greedy \s+ backtracks to that newline)
sub_ws_newline(s) ==
  SelectIdx(s, {i \in 1..Len(s) :
     ~ (/\ s[i] \in Whitespace
        /\ \E j \in (i+1)..Len(s) :
              /\ s[j] = "\n"
              /\ \A k \in i..j : s[k] \in Whitespace)})

\* re.sub(r"\n{2,}", "\n\n", s): a run of newlines keeps its first two
sub_blank_lines(s) ==
  SelectIdx(s, {i \in 1..Len(s) :
     ~ (i >= 3 /\ s[i] = "\n" /\ s[i-1] = "\n" /\ s[i-2] = "\n")})

\* the window moved on by its whole width
next_start_no_overlap(i, chunk_chars, overlap) == i + chunk_chars

\* the step taken without its lower limit of 1
next_start_unguarded(i, chunk_chars, overlap) == i + (chunk_chars - overlap)

\* line 126
next_start(i, chunk_chars, overlap) == i + Max(1, chunk_chars - overlap)

\* line 124: s[i:i+chunk_chars], i 0-based
window(s, i, chunk_chars) == SubSeq(s, i + 1, Min(i + chunk_chars, Len(s)))

\* the while loop of chunk_text; i is the 0-based start index
RECURSIVE chunk_loop(_, _, _, _, _)
chunk_loop(s, i, chunk_chars, overlap, chunks) ==
  IF i < Len(s)
  THEN chunk_loop(s, next_start(i, chunk_chars, overlap), chunk_chars, overlap,
                  Append(chunks, window(s, i, chunk_chars)))
  ELSE chunks

NonBlank(c) == strip(c) # <<>>

chunk_text(s0, chunk_chars, overlap) ==
  LET s      == sub_blank_lines(sub_ws_newline(s0))
      chunks == chunk_loop(s, 0, chunk_chars, overlap, <<>>)
      kept   == SelectSeq(chunks, NonBlank)
  IN  [i \in 1..Len(kept) |-> strip(kept[i])]

(************************ the deployment's data ****************************)
\* normalised identifier whose digits end in d
Id(d) == NCT_PREFIX \o Rep("0", NCT_WIDTH - 1) \o <<d>>

NoUrl  == ""
NoPath == <<>>

\* a source is a URL of the CSV or a path under DOWNLOAD_DIR
UrlSource(u)        == [url |-> u, folder |-> NoPath, file |-> NoPath]
PathSource(dir, f)  == [url |-> NoUrl, folder |-> dir, file |-> f]

U1 == "https://x.org/u1.pdf"
U2 == "https://x.org/u2.pdf"
U3 == "https://x.org/u3.pdf"
U4 == "https://x.org/u4.pdf"
U5 == "https://x.org/u5.pdf"
U6 == "https://x.org/u6.pdf"
U7 == "https://x.org/u7.pdf"

FileA   == <<"a", ".", "p", "d", "f">>
FileB   == <<"B", ".", "P", "D", "F">>
FileTxt == <<"n", ".", "t", "x", "t">>

\* os.listdir of the folders that exist under DOWNLOAD_DIR, in listing order
DOWNLOADS ==
  (Id("1") :> <<FileA, FileTxt, FileB>>) @@ (Id("2") :> <<FileTxt>>)

\* rows of the CSV file: identifier cell, registry URL, extracted
\* (label, url) pairs of the documents cell, title
CSV_ROWS == <<
  [nct |-> <<"N","C","T","0","0","0","0","0","0","0","1">>, study_url |-> "s1",
   docs |-> << <<"Protocol", U7>> >>, study_title |-> "t1"],
  [nct |-> <<"n","c","t","2">>, study_url |-> "s2",
   docs |-> << <<"Protocol", U1>>, <<"SAP", U2>>, <<"ICF", U3>>,
               <<"Document", U4>>, <<"ICF", U5>>, <<"SAP", U6>> >>,
   study_title |-> "t2"] >>

\* lines 79-86: one entry per normalised identifier, the last row wins
CSV_MAP ==
  LET keys == {normalize_nct(CSV_ROWS[i].nct) : i \in 1..Len(CSV_ROWS)}
      last(k) == CHOOSE i \in 1..Len(CSV_ROWS) :
                   /\ normalize_nct(CSV_ROWS[i].nct) = k
                   /\ \A j \in 1..Len(CSV_ROWS) :
                        normalize_nct(CSV_ROWS[j].nct) = k => j <= i
  IN  [k \in keys |-> [study_url   |-> CSV_ROWS[last(k)].study_url,
                       docs        |-> CSV_ROWS[last(k)].docs,
                       study_title |-> CSV_ROWS[last(k)].study_title]]

\* the parsed RIS file
RIS_MAP ==
  (Id("1") :> [title |-> "ris1", year |-> "2019", authors |-> <<"Doe, J">>])

\* text the PDF extraction yields for a readable source
DocText(src) ==
  CASE src.file = FileA -> <<"a", " ", "b", " ", "\n", "\n", "c">>
    [] src.file = FileB -> Rep("x", CHUNK_TOKENS)
    [] src.url = U7     -> <<" ", "\n">>
    [] src.url = U2     -> <<"p", "2">>
    [] OTHER            -> <<"p">>

\* what reading a source can end in: "ok", or a failure of the HTTP
\* retrieval, of writing the temporary file, or of the PDF extraction
Outcomes(src) ==
  CASE src.file = FileA -> {"ok"}
    [] src.file = FileB -> {"ok", "extract_fail"}
    [] src.url = U1     -> {"get_fail"}
    [] src.url = U2     -> {"ok", "write_fail"}
    [] src.url = U3     -> {"extract_fail"}
    [] src.url = U4     -> {"get_fail"}
    [] src.url = U5     -> {"extract_fail"}
    [] OTHER            -> {"ok"}

\* identifier strings the clients send
RawIds == { <<"n","c","t","1">>, <<"N","C","T"," ","2">>, <<" ","9"," ">> }

Reqs == {"r1", "r2"}


(************************** source selection *******************************)
Range(f) == {f[i] : i \in DOMAIN f}

\* str.endswith
endswith(s, suffix) ==
  /\ Len(s) >= Len(suffix)
  /\ SubSeq(s, Len(s) - Len(suffix) + 1, Len(s)) = suffix

PdfSuffix == <<".", "p", "d", "f">>

IsPdfName(f) == endswith(lower(f), PdfSuffix)

\* the listing taken without the .pdf filter
get_local_pdfs_unfiltered(n) ==
  IF n \notin DOMAIN DOWNLOADS THEN <<>>
  ELSE [i \in 1..Len(DOWNLOADS[n]) |-> PathSource(n, DOWNLOADS[n][i])]

get_local_pdfs(n) ==
  IF n \notin DOMAIN DOWNLOADS THEN <<>>
  ELSE LET names == SelectSeq(DOWNLOADS[n], IsPdfName)
       IN  [i \in 1..Len(names) |-> PathSource(n, names[i])]

\* line 158: the URLs of the CSV documents cell, in cell order
csv_urls(n) ==
  IF n \notin DOMAIN CSV_MAP THEN <<>>
  ELSE [i \in 1..Len(CSV_MAP[n].docs) |-> UrlSource(CSV_MAP[n].docs[i][2])]

\* lines 153-158
select_sources(n) ==
  LET locals_ == get_local_pdfs(n)
  IN  IF locals_ # <<>> THEN locals_ ELSE csv_urls(n)

\* the slice left out
capped_all(srcs) == srcs

\* sources[:5]
capped(srcs) == SubSeq(srcs, 1, Min(MAX_SOURCES, Len(srcs)))

\* line 97
IsRemote(src) == src.url # NoUrl

\* every source a build can select
AllSources ==
  UNION {Range(select_sources(normalize_nct(x))) : x \in RawIds}

\* line 166 on the text of each readable source
CHUNKS_OF == [src \in AllSources |->
                chunk_text(DocText(src), CHUNK_TOKENS, OVERLAP)]

DocChunks(src) == CHUNKS_OF[src]

\* break in place of continue
after_failure_break(i, n) == n + 1

\* the except/continue of lines 171-172: the loop goes on with the next source
after_failure(i, n) == i + 1

\* the embedding service's vector for one text
EmbedModel(t) == <<Len(t) % 7, 1>>

\* only the first item of the service's answer taken
embed_first_only(texts) ==
  IF texts = <<>> THEN <<>> ELSE <<EmbedModel(texts[1])>>

\* embed(texts), when the service answers
embed(texts) == [i \in 1..Len(texts) |-> EmbedModel(texts[i])]

\* lines 176-183
build_meta(n) ==
  LET ris == IF n \in DOMAIN RIS_MAP THEN RIS_MAP[n]
             ELSE [title |-> "", year |-> "", authors |-> <<>>]
      csvt == IF n \in DOMAIN CSV_MAP THEN CSV_MAP[n].study_title ELSE ""
  IN  [nct          |-> n,
       title        |-> IF ris.title # "" THEN ris.title ELSE csvt,
       year         |-> ris.year,
       authors      |-> ris.authors,
       registry_url |-> IF n \in DOMAIN CSV_MAP THEN CSV_MAP[n].study_url ELSE "",
       doc_urls     |-> [i \in 1..Len(csv_urls(n)) |-> csv_urls(n)[i].url]]

APOLOGY == "I couldn't load any text for this study yet (no readable PDFs). Try again or check the CSV links."


(******************************* state *************************************)
VARIABLES
  CACHE,       \* the module-level dict: normalised identifier -> entry
  tmpfiles,    \* names of the temporary files that exist on disk
  pc,          \* where each request is in chat / build_context_for_nct
  nct,         \* the request's normalised identifier
  sources,     \* the build's source list (line 153-158)
  idx,         \* 1-based position of the loop of line 163 in sources[:5]
  all_chunks,  \* the build's local all_chunks
  src_map,     \* the build's local src_map
  vecs,        \* the build's local vecs
  tmp_path,    \* read_pdf_text's temporary file while it is extracting
  ctx,         \* what build_context_for_nct returned to chat
  resp,        \* how the request ended
  reads,       \* the read_pdf_text calls of the request's build, in order
  buildEmbeds, \* batch embedding calls made by the request's build
  genCalls,    \* generation-service calls made by the request
  raw,         \* normaliser runs: the input string
  out,         \* normaliser runs: normalize_nct of the input
  lastOp,      \* normaliser runs: how the input was last changed
  edits,       \* normaliser runs: case/whitespace/prefix edits made so far
  ris_lines,   \* RIS runs: the lines of the RIS file
  ris_meta,    \* RIS runs: what load_ris returns for the file
  dl_meta,     \* RIS runs: what the downloader's parse_ris returns for it
  cell,        \* extractor runs: the documents cell, piece by piece
  pairs,       \* extractor runs: extract_pairs of the cell
  ck_pc,       \* chunker runs: where chunk_text is
  ck_s,        \* chunker runs: chunk_text's s
  ck_w,        \* chunker runs: chunk_text's chunk_chars
  ck_o,        \* chunker runs: chunk_text's overlap
  ck_i,        \* chunker runs: chunk_text's i
  ck_chunks,   \* chunker runs: chunk_text's chunks, then what it returns
  tk_vecs,     \* ranking runs: chunk_vecs, one row per chunk
  tk_q,        \* ranking runs: the query's vector
  tk_k,        \* ranking runs: topk's k
  tk_out       \* ranking runs: the chunk positions topk returns, in order

svars == <<CACHE, tmpfiles, pc, nct, sources, idx, all_chunks, src_map, vecs,
           tmp_path, ctx, resp, reads, buildEmbeds, genCalls>>
nvars == <<raw, out, lastOp, edits>>
rvars == <<ris_lines, ris_meta, dl_meta>>
evars == <<cell, pairs>>
cvars == <<ck_pc, ck_s, ck_w, ck_o, ck_i, ck_chunks>>
tvars == <<tk_vecs, tk_q, tk_k, tk_out>>
fvars == <<rvars, evars, cvars, tvars>>
vars  == <<svars, nvars, fvars>>

NoNct  == <<>>
NoTmp  == 0
NoCtx  == [obj |-> "none", meta |-> <<>>, chunks |-> <<>>, vecs |-> <<>>,
           srcmap |-> <<>>]
NoResp == [kind |-> "none", answer |-> "", meta |-> <<>>]
RaisedResp == [kind |-> "exception", answer |-> "", meta |-> <<>>]

InitServer ==
  /\ CACHE = <<>>
  /\ tmpfiles = {}
  /\ pc = [r \in Reqs |-> "idle"]
  /\ nct = [r \in Reqs |-> NoNct]
  /\ sources = [r \in Reqs |-> <<>>]
  /\ idx = [r \in Reqs |-> 1]
  /\ all_chunks = [r \in Reqs |-> <<>>]
  /\ src_map = [r \in Reqs |-> <<>>]
  /\ vecs = [r \in Reqs |-> <<>>]
  /\ tmp_path = [r \in Reqs |-> NoTmp]
  /\ ctx = [r \in Reqs |-> NoCtx]
  /\ resp = [r \in Reqs |-> NoResp]
  /\ reads = [r \in Reqs |-> <<>>]
  /\ buildEmbeds = [r \in Reqs |-> 0]
  /\ genCalls = [r \in Reqs |-> 0]

InitNormIdle ==
  /\ raw = <<>>
  /\ out = normalize_nct(<<>>)
  /\ lastOp = "init"
  /\ edits = 0

\* no RIS file has been read
InitRisIdle ==
  /\ ris_lines = <<>>
  /\ ris_meta = <<>>
  /\ dl_meta = <<>>

\* no cell has been parsed
InitPairsIdle ==
  /\ cell = <<>>
  /\ pairs = <<>>

\* chunk_text is not running
InitChunkIdle ==
  /\ ck_pc = "idle"
  /\ ck_s = <<>>
  /\ ck_w = CHUNK_TOKENS
  /\ ck_o = OVERLAP
  /\ ck_i = 0
  /\ ck_chunks = <<>>

\* topk is not running
InitTopkIdle ==
  /\ tk_vecs = <<>>
  /\ tk_q = <<>>
  /\ tk_k = TOP_K
  /\ tk_out = <<>>

Init == /\ InitServer /\ InitNormIdle
        /\ InitRisIdle /\ InitPairsIdle /\ InitChunkIdle /\ InitTopkIdle

(************************ build_context_for_nct ****************************)
\* the membership test always missing
CacheHit_never(n) == FALSE

\* line 149
CacheHit(n) == n \in DOMAIN CACHE

\* the emptiness test always failing
ZeroChunks_never(c) == FALSE

\* line 212
ZeroChunks(c) == c.chunks = <<>>

\* the loop of line 163 is over when idx has passed sources[:5]
LoopPc(i, srcs) == IF i > Len(capped(srcs)) THEN "embed" ELSE "loop"

\* the locals of build_context_for_nct go away when it returns or raises
DropBuild(r) ==
  /\ sources' = [sources EXCEPT ![r] = <<>>]
  /\ idx' = [idx EXCEPT ![r] = 1]
  /\ all_chunks' = [all_chunks EXCEPT ![r] = <<>>]
  /\ src_map' = [src_map EXCEPT ![r] = <<>>]
  /\ vecs' = [vecs EXCEPT ![r] = <<>>]
  /\ reads' = [reads EXCEPT ![r] = <<>>]
  /\ buildEmbeds' = [buildEmbeds EXCEPT ![r] = 0]

KeepBuild == UNCHANGED <<sources, idx, all_chunks, src_map, vecs, reads,
                         buildEmbeds>>

\* the request is over: rs is what the endpoint gave back
Finish(r, rs) ==
  /\ resp' = [resp EXCEPT ![r] = rs]
  /\ pc' = [pc EXCEPT ![r] = "done"]
  /\ nct' = [nct EXCEPT ![r] = NoNct]
  /\ ctx' = [ctx EXCEPT ![r] = NoCtx]

\* POST /chat arrives: line 208, then lines 149-158 of the build
ChatEnter(r, x) ==
  LET n == normalize_nct(x) IN
  /\ pc[r] \in {"idle", "done"}
  /\ nct' = [nct EXCEPT ![r] = n]
  /\ resp' = [resp EXCEPT ![r] = NoResp]
  /\ genCalls' = [genCalls EXCEPT ![r] = 0]
  /\ IF CacheHit(n)
     THEN /\ ctx' = [ctx EXCEPT ![r] = CACHE[n]]
          /\ pc' = [pc EXCEPT ![r] = "have_ctx"]
          /\ UNCHANGED sources
     ELSE /\ sources' = [sources EXCEPT ![r] = select_sources(n)]
          /\ pc' = [pc EXCEPT ![r] = LoopPc(1, select_sources(n))]
          /\ UNCHANGED ctx
  /\ UNCHANGED <<CACHE, tmpfiles, tmp_path, idx, all_chunks, src_map, vecs,
                 reads, buildEmbeds, nvars, fvars>>

CurrentSource(r) == capped(sources[r])[idx[r]]

\* lines 167-170
AddChunks(r, src) ==
  LET chunks == DocChunks(src) IN
  /\ all_chunks' = [all_chunks EXCEPT ![r] = @ \o chunks]
  /\ src_map' = [src_map EXCEPT ![r] =
                   @ \o [i \in 1..Len(chunks) |-> [src |-> src, i |-> i - 1]]]

\* the loop moves to the next source after a source that was read
Advance(r) ==
  /\ idx' = [idx EXCEPT ![r] = @ + 1]
  /\ pc' = [pc EXCEPT ![r] = LoopPc(idx[r] + 1, sources[r])]

\* the loop's except branch
Skip(r) ==
  LET j == after_failure(idx[r], Len(capped(sources[r]))) IN
  /\ idx' = [idx EXCEPT ![r] = j]
  /\ pc' = [pc EXCEPT ![r] = LoopPc(j, sources[r])]
  /\ UNCHANGED <<all_chunks, src_map>>

\* read_pdf_text on a local path (lines 111-116) inside the loop body
ReadLocal(r, o) ==
  /\ pc[r] = "loop"
  /\ ~ IsRemote(CurrentSource(r))
  /\ o \in Outcomes(CurrentSource(r))
  /\ LET src == CurrentSource(r)
         rd  == [src |-> src, outcome |-> o, tmp_left |-> FALSE]
     IN  /\ reads' = [reads EXCEPT ![r] = Append(@, rd)]
         /\ IF o = "ok" THEN AddChunks(r, src) /\ Advance(r) ELSE Skip(r)
  /\ UNCHANGED <<CACHE, tmpfiles, nct, sources, vecs, tmp_path, ctx, resp,
                 buildEmbeds, genCalls, nvars, fvars>>

\* temporary files nobody is extracting from any more
Leaked == tmpfiles \ {tmp_path[q] : q \in Reqs}

\* NamedTemporaryFile picks a name no existing file has
FreshTmp == CHOOSE k \in 1..(Cardinality(tmpfiles) + 1) : k \notin tmpfiles

\* read_pdf_text on a URL, lines 98-102: the GET, then the temporary file
HttpGet(r, o) ==
  /\ pc[r] = "loop"
  /\ IsRemote(CurrentSource(r))
  /\ LET src == CurrentSource(r)
         rd(oc, left) == [src |-> src, outcome |-> oc, tmp_left |-> left]
     IN
     \/ /\ o = "get_fail"
        /\ o \in Outcomes(src)
        /\ reads' = [reads EXCEPT ![r] = Append(@, rd(o, FALSE))]
        /\ Skip(r)
        /\ UNCHANGED <<tmpfiles, tmp_path>>
     \/ /\ o = "write_fail"
        /\ o \in Outcomes(src)
        /\ Cardinality(Leaked) < MaxTmp
        /\ tmpfiles' = tmpfiles \cup {FreshTmp}
        /\ reads' = [reads EXCEPT ![r] =
                       Append(@, rd(o, FreshTmp \in tmpfiles'))]
        /\ Skip(r)
        /\ UNCHANGED tmp_path
     \/ /\ o = "written"
        /\ Outcomes(src) \cap {"ok", "extract_fail"} # {}
        /\ tmpfiles' = tmpfiles \cup {FreshTmp}
        /\ tmp_path' = [tmp_path EXCEPT ![r] = FreshTmp]
        /\ reads' = [reads EXCEPT ![r] = Append(@, rd(o, FALSE))]
        /\ pc' = [pc EXCEPT ![r] = "extract"]
        /\ UNCHANGED <<idx, all_chunks, src_map>>
  /\ UNCHANGED <<CACHE, nct, sources, vecs, ctx, resp, buildEmbeds, genCalls, nvars, fvars>>

\* read_pdf_text on a URL, lines 103-110: extraction, then the unlink
Extract(r, o) ==
  /\ pc[r] = "extract"
  /\ o \in Outcomes(CurrentSource(r)) \cap {"ok", "extract_fail"}
  /\ LET src == CurrentSource(r)
         tmp == tmp_path[r]
     IN  /\ tmpfiles' = tmpfiles \ {tmp}
         /\ tmp_path' = [tmp_path EXCEPT ![r] = NoTmp]
         /\ reads' = [reads EXCEPT ![r][Len(reads[r])] =
                        [src |-> src, outcome |-> o,
                         tmp_left |-> tmp \in tmpfiles']]
         /\ IF o = "ok" THEN AddChunks(r, src) /\ Advance(r) ELSE Skip(r)
  /\ UNCHANGED <<CACHE, nct, sources, vecs, ctx, resp, buildEmbeds, genCalls, nvars, fvars>>

\* line 174: one batch embedding call, none for an empty chunk list; a
\* failure of the call leaves build_context_for_nct and chat as an exception
\* the entry stored before the vectors are there
cache_after_raise_partial(r) ==
  (nct[r] :> [obj    |-> r,
              meta   |-> build_meta(nct[r]),
              chunks |-> all_chunks[r],
              vecs   |-> <<>>,
              srcmap |-> src_map[r]]) @@ CACHE

\* the exception of line 174 leaves build_context_for_nct before line 185
cache_after_raise(r) == CACHE

EmbedChunks(r, ok) ==
  /\ pc[r] = "embed"
  /\ IF all_chunks[r] = <<>>
     THEN /\ ok
          /\ pc' = [pc EXCEPT ![r] = "store"]
          /\ UNCHANGED <<vecs, buildEmbeds, resp, nct, ctx, sources, idx,
                         all_chunks, src_map, reads>>
     ELSE IF ok
          THEN /\ vecs' = [vecs EXCEPT ![r] = embed(all_chunks[r])]
               /\ buildEmbeds' = [buildEmbeds EXCEPT ![r] = @ + 1]
               /\ pc' = [pc EXCEPT ![r] = "store"]
               /\ UNCHANGED <<resp, nct, ctx, sources, idx, all_chunks,
                              src_map, reads>>
          ELSE Finish(r, RaisedResp) /\ DropBuild(r)
  /\ CACHE' = IF all_chunks[r] # <<>> /\ ~ ok THEN cache_after_raise(r)
              ELSE CACHE
  /\ UNCHANGED <<tmpfiles, tmp_path, genCalls, nvars, fvars>>

\* lines 176-185
Store(r) ==
  /\ pc[r] = "store"
  /\ CACHE' = (nct[r] :> [obj    |-> r,
                          meta   |-> build_meta(nct[r]),
                          chunks |-> all_chunks[r],
                          vecs   |-> vecs[r],
                          srcmap |-> src_map[r]]) @@ CACHE
  /\ pc' = [pc EXCEPT ![r] = "ret"]
  /\ KeepBuild
  /\ UNCHANGED <<tmpfiles, nct, tmp_path, ctx, resp, genCalls, nvars, fvars>>

\* line 186
Return(r) ==
  /\ pc[r] = "ret"
  /\ ctx' = [ctx EXCEPT ![r] = CACHE[nct[r]]]
  /\ pc' = [pc EXCEPT ![r] = "have_ctx"]
  /\ DropBuild(r)
  /\ UNCHANGED <<CACHE, tmpfiles, nct, tmp_path, resp, genCalls, nvars, fvars>>

(********************************* chat ************************************)
\* lines 211-213
CheckChunks(r) ==
  /\ pc[r] = "have_ctx"
  /\ IF ZeroChunks(ctx[r])
     THEN Finish(r, [kind   |-> "structured",
                     answer |-> APOLOGY,
                     meta   |-> ctx[r].meta])
     ELSE /\ pc' = [pc EXCEPT ![r] = "topk"]
          /\ UNCHANGED <<resp, nct, ctx>>
  /\ KeepBuild
  /\ UNCHANGED <<CACHE, tmpfiles, tmp_path, genCalls, nvars, fvars>>

\* line 215: topk embeds the question; a failure of that call leaves chat
\* as an exception
TopkEmbed(r, ok) ==
  /\ pc[r] = "topk"
  /\ IF ok
     THEN pc' = [pc EXCEPT ![r] = "gen"] /\ UNCHANGED <<resp, nct, ctx>>
     ELSE Finish(r, RaisedResp)
  /\ KeepBuild
  /\ UNCHANGED <<CACHE, tmpfiles, tmp_path, genCalls, nvars, fvars>>

\* lines 231-233; a failure of the generation call leaves chat as an exception
Generate(r, ok) ==
  /\ pc[r] = "gen"
  /\ genCalls' = [genCalls EXCEPT ![r] = @ + 1]
  /\ Finish(r, IF ok THEN [kind |-> "structured", answer |-> "generated",
                           meta |-> ctx[r].meta]
               ELSE RaisedResp)
  /\ KeepBuild
  /\ UNCHANGED <<CACHE, tmpfiles, tmp_path, nvars, fvars>>

Step(r) ==
  \/ \E x \in RawIds : ChatEnter(r, x)
  \/ \E o \in {"ok", "extract_fail"} : ReadLocal(r, o)
  \/ \E o \in {"get_fail", "write_fail", "written"} : HttpGet(r, o)
  \/ \E o \in {"ok", "extract_fail"} : Extract(r, o)
  \/ \E ok \in BOOLEAN : EmbedChunks(r, ok)
  \/ Store(r)
  \/ Return(r)
  \/ CheckChunks(r)
  \/ \E ok \in BOOLEAN : TopkEmbed(r, ok)
  \/ \E ok \in BOOLEAN : Generate(r, ok)

\* requests run in the server's worker threads and interleave
Next == \E r \in Reqs : Step(r)

Spec == Init /\ [][Next]_vars

\* one request at a time: a request starts only when no other is running
Quiet(r) == \A q \in Reqs \ {r} : pc[q] \in {"idle", "done"}

NextSeq == \E r \in Reqs : Quiet(r) /\ Step(r)

SpecSeq == Init /\ [][NextSeq]_vars


(*********************** runs of the normaliser ****************************)
Seeds == { <<>>,
           <<"n","c","t","4","0","1","9">>,
           <<"N","C","T"," ","4","0","1","9">>,
           <<"n","c","t","0","0","0","0","4","0","1","9">> }

TypedChars == {"7", "x"}

InitNorm ==
  /\ InitServer
  /\ InitRisIdle /\ InitPairsIdle /\ InitChunkIdle /\ InitTopkIdle
  /\ raw \in Seeds
  /\ out = normalize_nct(raw)
  /\ lastOp = "init"
  /\ edits = 0

\* the caller passes the string to normalize_nct
Feed(s, op) ==
  /\ raw' = s
  /\ out' = normalize_nct(s)
  /\ lastOp' = op
  /\ UNCHANGED <<svars, fvars>>

TypeChar(c) ==
  /\ lastOp \in {"init", "type"}
  /\ Len(raw) < MaxRawLen
  /\ Feed(Append(raw, c), "type")
  /\ UNCHANGED edits

IsLetter(c) == UpperChar(c) # c \/ LowerChar(c) # c

\* the same string with the letter at position i in the other case
SwapCase(i) ==
  /\ edits < MaxEdits
  /\ i \in 1..Len(raw)
  /\ IsLetter(raw[i])
  /\ Feed([raw EXCEPT ![i] = IF UpperChar(@) # @ THEN UpperChar(@)
                             ELSE LowerChar(@)], "case")
  /\ edits' = edits + 1

\* the same string with a whitespace character put in after position i
InsertSpace(i, w) ==
  /\ edits < MaxEdits
  /\ i \in 0..Len(raw)
  /\ Feed(SubSeq(raw, 1, i) \o <<w>> \o SubSeq(raw, i + 1, Len(raw)), "space")
  /\ edits' = edits + 1

\* the same string with the prefix written once more in front
RepeatPrefix(p) ==
  /\ edits < MaxEdits
  /\ Feed(p \o raw, "prefix")
  /\ edits' = edits + 1

\* the output is normalised again
Renormalize ==
  /\ lastOp # "renorm"
  /\ Feed(out, "renorm")
  /\ UNCHANGED edits

NextNorm ==
  \/ \E c \in TypedChars : TypeChar(c)
  \/ \E i \in 1..(MaxRawLen + MaxEdits + NCT_WIDTH) : SwapCase(i)
  \/ \E i \in 0..(MaxRawLen + MaxEdits + NCT_WIDTH), w \in {" ", "\t"} :
        InsertSpace(i, w)
  \/ \E p \in {NCT_PREFIX, lower(NCT_PREFIX)} : RepeatPrefix(p)
  \/ Renormalize

SpecNorm == InitNorm /\ [][NextNorm]_vars


(***************************** RIS parsers *********************************)
\* the tags the parsers look at
TAG == [TY |-> <<"T", "Y">>, ID |-> <<"I", "D">>, TI |-> <<"T", "I">>,
        PY |-> <<"P", "Y">>, AU |-> <<"A", "U">>]

\* dict.get(tag, "")
get(rec, tag) == IF tag \in DOMAIN rec THEN rec[tag] ELSE <<>>

\* ln[:2].strip() and ln[6:].strip() (lines 38; a line is kept without its
\* newline, which strip() drops)
line_tag(ln) == strip(SubSeq(ln, 1, Min(2, Len(ln))))
line_val(ln) == strip(SubSeq(ln, 7, Len(ln)))

\* s.split(",")[0]
before_comma(s) ==
  IF \E j \in 1..Len(s) : s[j] = ","
  THEN SubSeq(s, 1, (CHOOSE j \in 1..Len(s) :
                       s[j] = "," /\ \A h \in 1..(j - 1) : s[h] # ",") - 1)
  ELSE s

\* an entry already stored for the key is kept
store_first(key, entry, meta) ==
  IF key \in DOMAIN meta THEN meta ELSE (key :> entry) @@ meta

\* meta[key] = entry
store(key, entry, meta) == (key :> entry) @@ meta

\* rag_server.load_ris, lines 41-47 and 50-56
flush_server(rec, meta) ==
  IF TAG.ID \in DOMAIN rec
  THEN store(normalize_nct(rec[TAG.ID]),
             [title |-> get(rec, TAG.TI), year |-> get(rec, TAG.PY),
              authors |-> IF get(rec, TAG.AU) # <<>>
                          THEN <<get(rec, TAG.AU)>> ELSE <<>>],
             meta)
  ELSE meta

\* download_informed_consent.parse_ris, lines 33-39 and 43-49
flush_downloader(rec, meta) ==
  IF TAG.ID \in DOMAIN rec
  THEN store(rec[TAG.ID],
             [title |-> get(rec, TAG.TI), year |-> get(rec, TAG.PY),
              author |-> before_comma(get(rec, TAG.AU))],
             meta)
  ELSE meta

flush(who, rec, meta) ==
  IF who = "server" THEN flush_server(rec, meta)
  ELSE flush_downloader(rec, meta)

\* the loop over the lines of the file and the flush after it
RECURSIVE ris_loop(_, _, _, _, _)
ris_loop(who, lines, k, rec, meta) ==
  IF k > Len(lines) THEN flush(who, rec, meta)
  ELSE LET tag == line_tag(lines[k])
           val == line_val(lines[k])
       IN IF tag = <<>> THEN ris_loop(who, lines, k + 1, rec, meta)
          ELSE IF tag = TAG.TY /\ DOMAIN rec # {}
          THEN ris_loop(who, lines, k + 1, (tag :> val), flush(who, rec, meta))
          ELSE ris_loop(who, lines, k + 1, (tag :> val) @@ rec, meta)

load_ris(lines) == ris_loop("server", lines, 1, <<>>, <<>>)

parse_ris(lines) == ris_loop("downloader", lines, 1, <<>>, <<>>)

\* the lines a RIS file is made of here
RisLines ==
  { <<"T", "Y", " ", " ", "-", " ", "J", "O", "U", "R">>,
    <<"I", "D", " ", " ", "-", " ", "n", "c", "t", "1">>,
    <<"I", "D", " ", " ", "-", " ", "N", "C", "T", "0", "0", "0", "0", "0", "0", "0", "1">>,
    <<"I", "D", " ", " ", "-", " ", "2">>,
    <<"T", "I", " ", " ", "-", " ", "A">>,
    <<"P", "Y", " ", " ", "-", " ", "2", "0", "1", "9">>,
    <<"A", "U", " ", " ", "-", " ", "D", "o", "e", ",", " ", "J">>,
    <<"A", "U", " ", " ", "-", " ", "R", "o", "e", ",", " ", "K">> }

InitRis ==
  /\ InitServer /\ InitNormIdle
  /\ InitPairsIdle /\ InitChunkIdle /\ InitTopkIdle
  /\ ris_lines \in {<<>>, <<<<>>>>}
  /\ ris_meta = load_ris(ris_lines)
  /\ dl_meta = parse_ris(ris_lines)

\* the file has one more line; both programs parse it
RisLine(ln) ==
  /\ Len(ris_lines) < MaxRisLines
  /\ ris_lines' = Append(ris_lines, ln)
  /\ ris_meta' = load_ris(ris_lines')
  /\ dl_meta' = parse_ris(ris_lines')
  /\ UNCHANGED <<svars, nvars, evars, cvars, tvars>>

NextRis == \E ln \in RisLines : RisLine(ln)

SpecRis == InitRis /\ [][NextRis]_vars


(**************************** extract_pairs ********************************)
\* str.strip(chars): drop the leading and trailing characters that are in cs
strip_chars(s, cs) ==
  IF \A i \in 1..Len(s) : s[i] \in cs THEN <<>>
  ELSE SubSeq(s,
         CHOOSE a \in 1..Len(s) :
           s[a] \notin cs /\ \A j \in 1..(a-1) : s[j] \in cs,
         CHOOSE b \in 1..Len(s) :
           s[b] \notin cs /\ \A j \in (b+1)..Len(s) : s[j] \in cs)

startswith(s, prefix) ==
  /\ Len(s) >= Len(prefix)
  /\ SubSeq(s, 1, Len(prefix)) = prefix

\* the text of a cell that is written piece by piece
RECURSIVE Flatten(_)
Flatten(toks) == IF toks = <<>> THEN <<>> ELSE Head(toks) \o Flatten(Tail(toks))

\* 1-based position where the first occurrence of u starts in p, 0 if none
find(p, u) ==
  LET at == {i \in 1..(Len(p) - Len(u) + 1) : SubSeq(p, i, i + Len(u) - 1) = u}
  IN IF at = {} THEN 0 ELSE CHOOSE i \in at : \A j \in at : i <= j

\* p.split(u, 1)[0] and p.split(u, 1)[1], for u occurring in p
before(p, u) == SubSeq(p, 1, find(p, u) - 1)
after(p, u) == SubSeq(p, find(p, u) + Len(u), Len(p))

\* str.split(sep) for a one-character separator
RECURSIVE split(_, _)
split(s, sep) ==
  IF find(s, <<sep>>) = 0 THEN <<s>>
  ELSE <<before(s, <<sep>>)>> \o split(after(s, <<sep>>), sep)

\* line 62
cell_parts(c) ==
  LET raw_parts == split(c, "|")
      kept == SelectIdx(raw_parts, {i \in 1..Len(raw_parts) : strip(raw_parts[i]) # <<>>})
  IN [i \in 1..Len(kept) |-> strip(kept[i])]

HTTP == <<"h", "t", "t", "p">>
SLASHES == <<":", "/", "/">>
\* [^\s,|]
UrlChar(c) == c \notin Whitespace /\ c # "," /\ c # "|"

\* where the body of a URL starts when https?:// matches at i (0: no match)
url_body(p, i) ==
  IF ~ startswith(lower(SubSeq(p, i, Len(p))), HTTP) THEN 0
  ELSE IF startswith(SubSeq(p, i + 4, Len(p)), SLASHES) THEN i + 7
  ELSE IF /\ i + 4 <= Len(p) /\ LowerChar(p[i + 4]) = "s"
          /\ startswith(SubSeq(p, i + 5, Len(p)), SLASHES) THEN i + 8
  ELSE 0

\* where url_re (line 63) ends when matched at i (0: no match): the lazy body
\* takes the first end at which .pdf is followed by whitespace or by nothing
url_end(p, i) ==
  LET b == url_body(p, i)
      ends == {e \in (b + 4)..Len(p) :
                 /\ \A j \in b..(e - 4) : UrlChar(p[j])
                 /\ lower(SubSeq(p, e - 3, e)) = PdfSuffix
                 /\ (e = Len(p) \/ p[e + 1] \in Whitespace)}
  IN IF b = 0 \/ ends = {} THEN 0 ELSE CHOOSE e \in ends : \A x \in ends : e <= x

\* url_re.findall(p), scanning from position i
RECURSIVE findall(_, _)
findall(p, i) ==
  IF i > Len(p) THEN <<>>
  ELSE IF url_end(p, i) = 0 THEN findall(p, i + 1)
  ELSE <<SubSeq(p, i, url_end(p, i))>> \o findall(p, url_end(p, i) + 1)

DOCUMENT == <<"D", "o", "c", "u", "m", "e", "n", "t">>

\* the label cut at the first comma of the segment
label_of_first_comma(p, u) == strip(before(p, <<",">>))

\* line 68
label_of(p, u) == strip_chars(strip(before(p, u)), {","})

\* lines 64-74 for one segment
part_pairs(p) ==
  LET urls == findall(p, 1) IN
  IF urls # <<>>
  THEN [j \in 1..Len(urls) |->
          [label |-> IF label_of(p, urls[j]) = <<>> THEN DOCUMENT
                     ELSE label_of(p, urls[j]),
           url |-> urls[j]]]
  ELSE IF find(p, <<",">>) # 0
          /\ startswith(lower(strip(after(p, <<",">>))), HTTP)
       THEN <<[label |-> strip(before(p, <<",">>)),
               url |-> strip(after(p, <<",">>))]>>
       ELSE <<>>

RECURSIVE all_pairs(_)
all_pairs(parts) ==
  IF parts = <<>> THEN <<>>
  ELSE part_pairs(Head(parts)) \o all_pairs(Tail(parts))

\* line 61: the cell texts that stand for no value
NULL_WORDS == <<<<"n", "a", "n">>, <<"n", "o", "n", "e">>>>

\* lines 59-75
extract_pairs(c) ==
  IF c = <<>> \/ lower(strip(c)) \in Range(NULL_WORDS) THEN <<>>
  ELSE all_pairs(cell_parts(c))

\* the pieces a cell is written from
TOK == [TEXT |-> <<"A">>, COMMA |-> <<",">>, SPACE |-> <<" ">>, PIPE |-> <<"|">>,
        PDF_URL |-> <<"h", "t", "t", "p", ":", "/", "/", "x", ".", "p", "d", "f">>,
        PAGE_URL |-> <<"h", "t", "t", "p", ":", "/", "/", "y">>]
CellTokens == Range(TOK)

\* a label with commas in front of a .pdf URL
EXAMPLE_CELL == << <<"C", "o", "n", "s", "e", "n", "t", " ", "F", "o", "r", "m">>,
                  TOK.COMMA, TOK.SPACE,
                  <<"V", "e", "r", "s", "i", "o", "n", " ", "2">>,
                  TOK.COMMA, TOK.SPACE,
                  <<"h", "t", "t", "p", "s", ":", "/", "/", "x", ".", "o", "r", "g", "/", "c", ".", "p", "d", "f">> >>

\* the label line 68 cuts from the example cell
EXAMPLE_LABEL == <<"C", "o", "n", "s", "e", "n", "t", " ", "F", "o", "r", "m", ",", " ", "V", "e", "r", "s", "i", "o", "n", " ", "2">>

InitPairs ==
  /\ InitServer /\ InitNormIdle
  /\ InitRisIdle /\ InitChunkIdle /\ InitTopkIdle
  /\ cell \in {<<>>, <<NULL_WORDS[1]>>, EXAMPLE_CELL}
  /\ pairs = extract_pairs(Flatten(cell))

\* the cell has one more piece; it is parsed
CellPiece(tok) ==
  /\ Len(cell) < MaxCellParts
  /\ cell' = Append(cell, tok)
  /\ pairs' = extract_pairs(Flatten(cell'))
  /\ UNCHANGED <<svars, nvars, rvars, cvars, tvars>>

NextPairs == \E tok \in CellTokens : CellPiece(tok)

SpecPairs == InitPairs /\ [][NextPairs]_vars


(************************* runs of chunk_text ******************************)
\* texts without whitespace, cut with the configured window
LongCalls ==
  {[s |-> Rep("x", n), chunk_chars |-> CHUNK_TOKENS, overlap |-> OVERLAP] :
     n \in 0..MaxTextLen}

\* short texts with blanks and newlines, cut with small windows
SmallCalls ==
  {[s |-> t, chunk_chars |-> w, overlap |-> o] :
     t \in UNION {[1..n -> {"a", " ", "\n"}] : n \in 0..MaxSmallLen},
     w \in 1..MaxWindow, o \in 0..(MaxWindow + 1)}

\* chunk_text has been called with one of the calls
Called(calls) ==
  /\ InitServer /\ InitNormIdle
  /\ InitRisIdle /\ InitPairsIdle /\ InitTopkIdle
  /\ \E call \in calls :
       /\ ck_s = call.s
       /\ ck_w = call.chunk_chars
       /\ ck_o = call.overlap
  /\ ck_pc = "called"
  /\ ck_i = 0
  /\ ck_chunks = <<>>

\* lines 119-122
ChunkNormalise ==
  /\ ck_pc = "called"
  /\ ck_s' = sub_blank_lines(sub_ws_newline(ck_s))
  /\ ck_chunks' = <<>>
  /\ ck_i' = 0
  /\ ck_pc' = "loop"
  /\ UNCHANGED <<ck_w, ck_o, svars, nvars, rvars, evars, tvars>>

\* lines 123-126: one turn of the while loop
ChunkStep ==
  /\ ck_pc = "loop"
  /\ ck_i < Len(ck_s)
  /\ ck_chunks' = Append(ck_chunks, window(ck_s, ck_i, ck_w))
  /\ ck_i' = next_start(ck_i, ck_w, ck_o)
  /\ UNCHANGED <<ck_pc, ck_s, ck_w, ck_o, svars, nvars, rvars, evars, tvars>>

\* line 127: the loop is over
ChunkReturn ==
  /\ ck_pc = "loop"
  /\ ~ (ck_i < Len(ck_s))
  /\ ck_chunks' = [j \in 1..Len(SelectSeq(ck_chunks, NonBlank)) |->
                     strip(SelectSeq(ck_chunks, NonBlank)[j])]
  /\ ck_pc' = "done"
  /\ UNCHANGED <<ck_s, ck_w, ck_o, ck_i, svars, nvars, rvars, evars, tvars>>

NextChunk == ChunkNormalise \/ ChunkStep \/ ChunkReturn

SpecChunk == Called(LongCalls \cup SmallCalls) /\ [][NextChunk]_vars

\* the short texts only; the interpreter keeps running the call
SpecChunkLive == Called(SmallCalls) /\ [][NextChunk]_vars /\ WF_vars(NextChunk)


(***************************** runs of topk ********************************)
dot(v, q) == v[1] * q[1] + v[2] * q[2]

\* np.linalg.norm, for the vectors used here (their norms are integers)
norm(v) == CHOOSE n \in 0..(dot(v, v)) : n * n = dot(v, v)

\* lines 140-141: sims[a] < sims[b] for rows a and b of chunk_vecs, where
\* sims[a] = dot(a, q) / (norm(a) * norm(q) + 1e-8); the 1e-8 is far below
\* the smallest gap between two different fractions of these integers, so it
\* decides only between fractions that are equal without it
sim_less(a, b, q) ==
  LET x == dot(a, q) * (norm(b) * norm(q)) - dot(b, q) * (norm(a) * norm(q))
  IN x < 0 \/ (x = 0 /\ dot(a, q) < dot(b, q))

\* the orders in which n rows can come
Orders(n) ==
  {p \in [1..n -> 1..n] : \A i, j \in 1..n : i # j => p[i] # p[j]}

\* line 142: np.argsort(-sims) with the default kind, which is not a stable
\* sort: any order of the rows in which sims does not increase
argsort_desc(chunk_vecs, q) ==
  {p \in Orders(Len(chunk_vecs)) :
     \A i, j \in 1..Len(chunk_vecs) :
       i < j => ~ sim_less(chunk_vecs[p[i]], chunk_vecs[p[j]], q)}

\* lines 136-143: the positions (from 1) of the chunks topk can return
topk(chunk_vecs, q, k) ==
  IF chunk_vecs = <<>> THEN {<<>>}
  ELSE {SubSeq(p, 1, Min(k, Len(p))) : p \in argsort_desc(chunk_vecs, q)}

\* the embedding vectors of the chunks
ChunkVecs == {<<1, 0>>, <<0, 1>>, <<3, 4>>, <<0, 0>>}

InitTopk ==
  /\ InitServer /\ InitNormIdle
  /\ InitRisIdle /\ InitPairsIdle /\ InitChunkIdle
  /\ tk_vecs = <<>>
  /\ tk_q \in {<<1, 0>>, <<4, 3>>}
  /\ tk_k \in {1, 2, TOP_K}
  /\ tk_out \in topk(tk_vecs, tk_q, tk_k)

\* the context has one more chunk; the chunks are ranked for the query
RankWith(v) ==
  /\ Len(tk_vecs) < MaxChunks
  /\ tk_vecs' = Append(tk_vecs, v)
  /\ tk_out' \in topk(tk_vecs', tk_q, tk_k)
  /\ UNCHANGED <<tk_q, tk_k, svars, nvars, rvars, evars, cvars>>

NextTopk == \E v \in ChunkVecs : RankWith(v)

SpecTopk == InitTopk /\ [][NextTopk]_vars

(******************************* claims ************************************)
BuildPcs == {"loop", "extract", "embed", "store"}

ReadSources(r) == {reads[r][i].src : i \in 1..Len(reads[r])}

\* C1: cache construction is serialised per identifier: two requests that
\* are building the same identifier at the same time never both fetch one
\* of its sources and never both make the build's batch embedding call.
C1_BuildSerialized ==
  \A r1, r2 \in Reqs :
    (r1 # r2 /\ pc[r1] \in BuildPcs /\ pc[r2] \in BuildPcs /\ nct[r1] = nct[r2])
      => /\ ReadSources(r1) \cap ReadSources(r2) = {}
         /\ ~ (buildEmbeds[r1] > 0 /\ buildEmbeds[r2] > 0)

\* C2: with requests run one after the other, once CACHE holds an entry for
\* an identifier a call for that identifier reads no source, makes no batch
\* embedding call, leaves the entry object in place and returns that object.
C2_SecondCallReusesEntry ==
  [][\A r \in Reqs :
       (nct'[r] # NoNct /\ nct'[r] \in DOMAIN CACHE)
         => /\ reads'[r] = reads[r] \/ reads'[r] = <<>>
            /\ buildEmbeds'[r] <= buildEmbeds[r]
            /\ pc'[r] \notin {"loop", "extract", "embed"}
            /\ CACHE'[nct'[r]] = CACHE[nct'[r]]
            /\ ctx'[r] \in {ctx[r], CACHE[nct'[r]]}]_vars

\* a request was handed an entry another request's build has stored
C2_Witness ==
  \E r \in Reqs : pc[r] = "have_ctx" /\ ctx[r].obj \notin {r, "none"}

\* C3: a request whose context entry has zero chunks ends with the fixed
\* apologetic answer and the entry's metadata, and never calls the
\* generation service.
C3_ZeroChunksApology ==
  [][\A r \in Reqs :
       (pc[r] = "have_ctx" /\ ctx[r].chunks = <<>> /\ pc'[r] # pc[r])
         => /\ pc'[r] = "done"
            /\ resp'[r] = [kind |-> "structured", answer |-> APOLOGY,
                           meta |-> ctx[r].meta]
            /\ genCalls[r] = 0
            /\ genCalls'[r] = 0]_vars

C3_Witness ==
  \E r \in Reqs :
    pc[r] = "done" /\ resp[r].answer = APOLOGY /\ genCalls[r] = 0

\* C4: every chat request ends with a structured response {answer, meta},
\* never with a raw exception.
C4_AlwaysStructured ==
  \A r \in Reqs : pc[r] = "done" => resp[r].kind = "structured"

\* the chunks of the reads that succeeded, in read order
RECURSIVE ChunksOfOk(_)
ChunksOfOk(rs) ==
  IF rs = <<>> THEN <<>>
  ELSE (IF Head(rs).outcome = "ok" THEN DocChunks(Head(rs).src) ELSE <<>>)
       \o ChunksOfOk(Tail(rs))

\* C5: a source that fails adds no chunk and does not stop the build: the
\* chunks gathered are those of the sources read successfully, every one of
\* the selected (first five) sources has been read when the loop is over,
\* and the entry the build stores holds exactly those chunks.
C5_FailureIsolation ==
  \A r \in Reqs :
    /\ pc[r] \in BuildPcs \cup {"ret"} => all_chunks[r] = ChunksOfOk(reads[r])
    /\ pc[r] \in {"embed", "store", "ret"}
         => /\ Len(reads[r]) = Min(5, Len(sources[r]))
            /\ \A i \in 1..Len(reads[r]) : reads[r][i].src = sources[r][i]
    /\ (pc[r] = "ret" /\ CACHE[nct[r]].obj = r)
         => CACHE[nct[r]].chunks = ChunksOfOk(reads[r])

\* a build that went on after a failed source and kept a later source's chunks
C5_Witness ==
  \E r \in Reqs :
    /\ pc[r] = "store"
    /\ \E i, j \in 1..Len(reads[r]) :
         /\ i < j
         /\ reads[r][i].outcome \notin {"ok", "written"}
         /\ reads[r][j].outcome = "ok"
         /\ DocChunks(reads[r][j].src) # <<>>

\* C6: whichever way read_pdf_text left (returned or raised), the temporary
\* file the call created does not exist afterwards.
C6_NoTmpLeft ==
  \A r \in Reqs : \A i \in 1..Len(reads[r]) :
    reads[r][i].outcome # "written" => ~ reads[r][i].tmp_left

LocalNames(n) == IF n \in DOMAIN DOWNLOADS THEN Range(DOWNLOADS[n]) ELSE {}

SourcesChosen(r) == pc[r] \in BuildPcs \cup {"ret"}

\* C7 as stated: when the identifier's folder holds any file the sources are
\* exactly those files and no CSV URL is read; CSV URLs are used only when
\* the folder holds no file.
C7_AnyLocalFile ==
  \A r \in Reqs :
    SourcesChosen(r) =>
      /\ LocalNames(nct[r]) # {}
           => /\ Range(sources[r]) =
                   {PathSource(nct[r], f) : f \in LocalNames(nct[r])}
              /\ \A s \in ReadSources(r) : s.url = NoUrl
      /\ (\E i \in 1..Len(sources[r]) : sources[r][i].url # NoUrl)
           => LocalNames(nct[r]) = {}

PdfNames(n) == {f \in LocalNames(n) : endswith(lower(f), PdfSuffix)}

\* C7 amended: when the identifier's folder holds an entry whose name ends
\* in .pdf (in any letter case) the sources are exactly those entries and no
\* CSV URL is read; otherwise the sources are the URLs of the CSV cell.
C7_LocalPdfsPreferred ==
  \A r \in Reqs :
    SourcesChosen(r) =>
      /\ PdfNames(nct[r]) # {}
           => /\ Range(sources[r]) =
                   {PathSource(nct[r], f) : f \in PdfNames(nct[r])}
              /\ Len(sources[r]) = Cardinality(PdfNames(nct[r]))
              /\ \A s \in ReadSources(r) : s.url = NoUrl
      /\ PdfNames(nct[r]) = {} => sources[r] = csv_urls(nct[r])

\* a build read local PDFs of a trial whose CSV row lists a URL and whose
\* folder also holds a file that is no PDF
C7_Witness ==
  \E r \in Reqs :
    /\ pc[r] = "embed"
    /\ reads[r] # <<>>
    /\ PdfNames(nct[r]) # {}
    /\ PdfNames(nct[r]) # LocalNames(nct[r])
    /\ csv_urls(nct[r]) # <<>>

\* C8: a build reads at most 5 sources, the first five of its source list
\* in list order, whatever the outcome of each read.
C8_AtMostFive ==
  \A r \in Reqs :
    /\ Len(reads[r]) <= 5
    /\ \A i \in 1..Len(reads[r]) : reads[r][i].src = sources[r][i]

\* a build over six sources ended after five reads that all failed
C8_Witness ==
  \E r \in Reqs :
    /\ pc[r] = "embed"
    /\ Len(sources[r]) > 5
    /\ Len(reads[r]) = 5
    /\ \A i \in 1..5 : reads[r][i].outcome # "ok"

\* C9: normalize_nct returns NCT followed by exactly 8 digits for every input.
C9_MatchesPattern ==
  /\ Len(out) = 11
  /\ SubSeq(out, 1, 3) = <<"N", "C", "T">>
  /\ \A i \in 4..Len(out) : out[i] \in Digits

C10_Examples == { <<"n","c","t","4","0","1","9">>,
                  <<"N","C","T"," ","4","0","1","9">>,
                  <<"n","c","t","0","0","0","0","4","0","1","9">> }

\* C10: inputs that differ only in letter case, in whitespace or in a
\* repeated NCT prefix normalise to the same identifier (the three example
\* spellings of 4019 included), and normalising an output changes nothing.
C10_VariantsAgree ==
  /\ [][lastOp' \in {"case", "space", "prefix", "renorm"} => out' = out]_vars
  /\ [](raw \in C10_Examples
          => out = <<"N","C","T","0","0","0","0","4","0","1","9">>)

\* an edited spelling of an input that has digits was normalised
C10_Witness ==
  /\ lastOp \in {"case", "space", "prefix"}
  /\ \E i \in 1..Len(raw) : raw[i] \in Digits \ {"0"}
  /\ \E i \in 1..Len(raw) : IsLetter(raw[i])


\* C11: every producer of identifiers uses the normalised form: the keys of
\* the map each RIS parser returns and the keys built from the CSV rows are
\* all fixed points of normalize_nct, so a lookup by the normalised
\* identifier finds the record stored for the trial.
C11_KeysNormalized ==
  /\ \A key \in DOMAIN ris_meta : key = normalize_nct(key)
  /\ \A key \in DOMAIN CSV_MAP : key = normalize_nct(key)
  /\ \A key \in DOMAIN dl_meta : key = normalize_nct(key)


\* the cell is label text with a comma between two words, then a .pdf URL
LabelWithCommas(toks) ==
  /\ Len(toks) >= 4
  /\ \A j \in 1..(Len(toks) - 1) : toks[j] \notin {TOK.PIPE, TOK.PDF_URL, TOK.PAGE_URL}
  /\ \E a, b, c \in 1..(Len(toks) - 1) :
       /\ a < b /\ b < c
       /\ toks[b] = TOK.COMMA
       /\ toks[a] \notin {TOK.COMMA, TOK.SPACE} /\ toks[c] \notin {TOK.COMMA, TOK.SPACE}
  /\ endswith(lower(toks[Len(toks)]), PdfSuffix)
  /\ startswith(lower(toks[Len(toks)]), HTTP)

\* C12: for a segment in which a .pdf URL that ends the segment is preceded
\* by label text that itself contains commas, extract_pairs gives exactly
\* one reference: its URL is that URL and its label is the whole preceding
\* text, inner commas kept, up to the whitespace and commas at its two ends.
C12_CommaLabelKept ==
  LabelWithCommas(cell) =>
    LET text == Flatten(SubSeq(cell, 1, Len(cell) - 1)) IN
    /\ Len(pairs) = 1
    /\ pairs[1].url = cell[Len(cell)]
    /\ find(text, pairs[1].label) # 0
    /\ strip_chars(pairs[1].label, Whitespace \cup {","})
         = strip_chars(text, Whitespace \cup {","})
    /\ (cell = EXAMPLE_CELL => pairs = <<[label |-> EXAMPLE_LABEL, url |-> EXAMPLE_CELL[7]]>>)

C12_Witness ==
  /\ LabelWithCommas(cell)
  /\ cell # EXAMPLE_CELL
  /\ Len(pairs) = 1
  /\ find(pairs[1].label, TOK.COMMA) # 0

\* C13: every reference extract_pairs gives has a non-empty label without
\* leading or trailing whitespace and without a trailing comma.
C13_LabelsClean ==
  \A j \in 1..Len(pairs) :
    /\ pairs[j].label # <<>>
    /\ strip(pairs[j].label) = pairs[j].label
    /\ pairs[j].label[Len(pairs[j].label)] # ","


\* the tag and the value of every line of the file
Parsed(lines) ==
  [k \in 1..Len(lines) |-> [tag |-> line_tag(lines[k]),
                            val |-> line_val(lines[k])]]

\* the number of the record each line belongs to, counted from 0: a TY line
\* opens a further record unless it is the first tagged line of the file
RecordOf(P) ==
  [k \in DOMAIN P |->
     Cardinality({o \in 1..k : /\ P[o].tag = TAG.TY
                               /\ \E h \in 1..(o - 1) : P[h].tag # <<>>})]

\* the lines of record r that carry the tag
TagLinesOf(P, R, r, tag) == {k \in DOMAIN P : R[k] = r /\ P[k].tag = tag}

\* the value record r has for the tag: that of its last line with the tag
Field(P, R, r, tag) ==
  LET ks == TagLinesOf(P, R, r, tag) IN
  IF ks = {} THEN <<>>
  ELSE P[CHOOSE k \in ks : \A h \in ks : h <= k].val

\* the normalised identifier of every record that has an ID line
RecordIds(P, R) ==
  LET rs == {r \in 0..Len(P) : TagLinesOf(P, R, r, TAG.ID) # {}}
  IN [r \in rs |-> normalize_nct(Field(P, R, r, TAG.ID))]

\* the last record whose ID normalises to n
LastRecordFor(ids, n) ==
  CHOOSE r \in DOMAIN ids : ids[r] = n /\ \A q \in DOMAIN ids : ids[q] = n => q <= r

\* C14: the map load_ris returns has one entry for each identifier some
\* record's ID normalises to, and when several records normalise to the
\* same identifier the entry's title, year and authors all come from the
\* last of them, none from an earlier one.
C14_LastRecordWins ==
  LET P == Parsed(ris_lines)
      R == RecordOf(P)
      ids == RecordIds(P, R)
  IN /\ DOMAIN ris_meta = {ids[r] : r \in DOMAIN ids}
     /\ \A n \in DOMAIN ris_meta :
          LET r == LastRecordFor(ids, n) IN
          /\ ris_meta[n].title = Field(P, R, r, TAG.TI)
          /\ ris_meta[n].year = Field(P, R, r, TAG.PY)
          /\ \A j \in 1..Len(ris_meta[n].authors) :
               \E k \in TagLinesOf(P, R, r, TAG.AU) :
                 ris_meta[n].authors[j] = P[k].val
          /\ (ris_meta[n].authors = <<>>) = (Field(P, R, r, TAG.AU) = <<>>)

\* two records of the file normalise to one identifier and differ in a field
C14_Witness ==
  LET P == Parsed(ris_lines)
      R == RecordOf(P)
      ids == RecordIds(P, R)
  IN \E r, q \in DOMAIN ids :
       /\ r < q /\ ids[r] = ids[q]
       /\ q = LastRecordFor(ids, ids[q])
       /\ \/ Field(P, R, r, TAG.TI) # Field(P, R, q, TAG.TI)
          \/ Field(P, R, r, TAG.PY) # Field(P, R, q, TAG.PY)
       /\ ris_meta[ids[q]].title = Field(P, R, q, TAG.TI)


\* the raw ID value of every record that has an ID line
RecordRawIds(P, R) ==
  LET rs == {r \in 0..Len(P) : TagLinesOf(P, R, r, TAG.ID) # {}}
  IN [r \in rs |-> Field(P, R, r, TAG.ID)]

\* the first author of record r: the value of its first AU line up to the
\* first comma, the empty string when the record has no AU line
FirstAuthor(P, R, r) ==
  LET ks == TagLinesOf(P, R, r, TAG.AU) IN
  IF ks = {} THEN <<>>
  ELSE before_comma(P[CHOOSE k \in ks : \A h \in ks : k <= h].val)

\* C15: for every record flushed into a map, the author stored in its entry
\* is the record's first author: the text of AU before its first comma, of
\* the first AU line when there are several, nothing when AU is absent or
\* empty (load_ris keeps it as a list of at most one name, parse_ris of the
\* downloader as a string).
C15_FirstAuthorStored ==
  LET P == Parsed(ris_lines)
      R == RecordOf(P)
      ids == RecordIds(P, R)
      raws == RecordRawIds(P, R)
  IN /\ \A n \in DOMAIN ris_meta :
          LET first == FirstAuthor(P, R, LastRecordFor(ids, n)) IN
          ris_meta[n].authors = IF first = <<>> THEN <<>> ELSE <<first>>
     /\ \A x \in DOMAIN dl_meta :
          dl_meta[x].author = FirstAuthor(P, R, LastRecordFor(raws, x))


\* the smallest integer not below a / b, for a >= 0 and b > 0
Ceil(a, b) == (a + b - 1) \div b

\* chunk_text has returned from a call with the configured window and
\* overlap on a text without whitespace that is longer than the overlap
ConfiguredCallDone ==
  /\ ck_pc = "done"
  /\ ck_w = CHUNK_TOKENS /\ ck_o = OVERLAP
  /\ Len(ck_s) > ck_o
  /\ \A j \in 1..Len(ck_s) : ck_s[j] \notin Whitespace

\* all chunks are non-empty and chunk j starts W - O characters after
\* chunk j - 1 and is W characters long, the text's end permitting
ChunksSlide ==
  \A j \in 1..Len(ck_chunks) :
    /\ ck_chunks[j] # <<>>
    /\ ck_chunks[j] = window(ck_s, (j - 1) * (ck_w - ck_o), ck_w)

\* C16 as stated: for W = 700 and O = 120, chunk_text on a whitespace-free
\* text of length len > O returns exactly ceil((len - O) / (W - O)) chunks,
\* all non-empty, each starting W - O characters after the previous one.
C16_ClaimedCount ==
  ConfiguredCallDone =>
    /\ Len(ck_chunks) = Ceil(Len(ck_s) - ck_o, ck_w - ck_o)
    /\ ChunksSlide

\* C16: for W = 700 and O = 120, chunk_text on a whitespace-free text of
\* length len > O returns exactly ceil(len / (W - O)) chunks, all non-empty,
\* each starting W - O characters after the previous one.
C16_ChunkCount ==
  ConfiguredCallDone =>
    /\ Len(ck_chunks) = Ceil(Len(ck_s), ck_w - ck_o)
    /\ ChunksSlide

\* a text whose last chunk lies wholly inside the overlap of the one before
C16_Witness ==
  /\ ConfiguredCallDone
  /\ Len(ck_chunks) = 3
  /\ Len(ck_chunks[3]) < ck_o

\* C20: chunk_text terminates for every text and every window/overlap pair,
\* overlap >= window included: every turn of the loop moves the start index
\* on by at least 1, the call returns, and every chunk returned is
\* non-empty and trimmed.
C20_ChunkTextTerminates ==
  /\ [][(ck_pc = "loop" /\ ck_pc' = "loop") => ck_i' >= ck_i + 1]_vars
  /\ [](ck_pc = "done" =>
          \A j \in 1..Len(ck_chunks) :
            ck_chunks[j] # <<>> /\ strip(ck_chunks[j]) = ck_chunks[j])
  /\ <>(ck_pc = "done")

\* a call with overlap >= window has returned several chunks
C20_Witness ==
  /\ ck_pc = "done"
  /\ ck_o >= ck_w
  /\ Len(ck_chunks) >= 2
  /\ ck_i >= Len(ck_s)


\* C17: topk on n chunks returns exactly min(k, n) of them, each input chunk
\* at most once, in descending order of cosine similarity to the query, and
\* chunks of equal similarity appear in their original order.
C17_TopkStable ==
  /\ Len(tk_out) = Min(tk_k, Len(tk_vecs))
  /\ \A i, j \in 1..Len(tk_out) :
       i < j =>
         /\ tk_out[i] # tk_out[j]
         /\ ~ sim_less(tk_vecs[tk_out[i]], tk_vecs[tk_out[j]], tk_q)
         /\ (sim_less(tk_vecs[tk_out[j]], tk_vecs[tk_out[i]], tk_q)
               \/ tk_out[i] < tk_out[j])


\* C18: once CACHE holds an entry for an identifier, no later step replaces
\* the entry or changes one of its fields, the store of a concurrent build
\* of the same identifier that started before the insertion included.
C18_EntryNeverReplaced ==
  [][\A n \in DOMAIN CACHE :
       n \in DOMAIN CACHE' /\ CACHE'[n] = CACHE[n]]_vars

\* C19: in every cache entry chunks, srcmap and the rows of vecs have the
\* same length; srcmap[j] names the source chunk j was cut from and the
\* chunk's 0-based index within that source, so the chunk is one chunk of
\* that source's text alone; the chunks of one source are contiguous and
\* in order.
C19_EntryAligned ==
  \A n \in DOMAIN CACHE :
    LET e == CACHE[n] IN
    /\ Len(e.srcmap) = Len(e.chunks)
    /\ Len(e.vecs) = Len(e.chunks)
    /\ \A j \in 1..Len(e.chunks) :
         /\ e.srcmap[j].i + 1 \in 1..Len(DocChunks(e.srcmap[j].src))
         /\ e.chunks[j] = DocChunks(e.srcmap[j].src)[e.srcmap[j].i + 1]
         /\ e.vecs[j] = EmbedModel(e.chunks[j])
         /\ IF j > 1 /\ e.srcmap[j - 1].src = e.srcmap[j].src
            THEN e.srcmap[j].i = e.srcmap[j - 1].i + 1
            ELSE e.srcmap[j].i = 0
    /\ \A j, l \in 1..Len(e.chunks) :
         (j < l /\ e.srcmap[j].src = e.srcmap[l].src)
           => \A h \in j..l : e.srcmap[h].src = e.srcmap[j].src

\* an entry built from two sources, one of them cut into several chunks
C19_Witness ==
  \E n \in DOMAIN CACHE :
    LET e == CACHE[n] IN
    /\ \E j, l \in 1..Len(e.srcmap) : e.srcmap[j].src # e.srcmap[l].src
    /\ \E j \in 1..Len(e.srcmap) : e.srcmap[j].i >= 1
    /\ Len(e.vecs) = Len(e.chunks)


\* C21: after a build in which every source failed, the entry without chunks
\* stays in CACHE: no later step puts chunks in its place, a request that
\* arrives for the identifier is handed that entry without reading a
\* source, and the request ends with the apologetic answer, also when a
\* source that failed in the build would be readable by now.
C21_EmptyEntryStays ==
  [][\A n \in DOMAIN CACHE :
       CACHE[n].chunks = <<>> =>
         /\ n \in DOMAIN CACHE' /\ CACHE'[n].chunks = <<>>
         /\ \A r \in Reqs :
              /\ (pc[r] \in {"idle", "done"} /\ pc'[r] \notin {"idle", "done"}
                    /\ nct'[r] = n)
                   => /\ pc'[r] = "have_ctx"
                      /\ ctx'[r] = CACHE[n]
                      /\ reads'[r] = <<>>
              /\ (pc[r] = "have_ctx" /\ nct[r] = n /\ ctx[r] = CACHE[n]
                    /\ pc'[r] # pc[r])
                   => /\ pc'[r] = "done"
                      /\ resp'[r].kind = "structured"
                      /\ resp'[r].answer = APOLOGY
                      /\ reads'[r] = <<>>
                      /\ genCalls'[r] = 0]_vars


====
